---------------------------- MODULE Spec2Model ----------------------------
(***************************************************************************)
(* Model of lib/Crypto/PublicKey/ECC.py: affine point arithmetic on a      *)
(* short-Weierstrass curve y^2 = x^3 - 3x + b over GF(p), width-4 signed   *)
(* digit scalar multiplication with a per-instance table of odd multiples, *)
(* and the EccKey object with its raw ECDSA primitives.                    *)
(*                                                                         *)
(* The curve constants are those of a curve of the same shape as P-256     *)
(* (a = -3, b # 0, prime group order, order < p < 2*order, cofactor 1),    *)
(* scaled down so that every point, scalar and signature can be            *)
(* enumerated: y^2 = x^3 - 3x + 15 over GF(23), 17 points.  The code only  *)
(* ever reads p, order, Gx and Gy; b enters through the set of valid       *)
(* points.                                                                 *)
(***************************************************************************)
EXTENDS Integers, Sequences, FiniteSets, TLC

VARIABLES heap, key, pub, ctor, ret, scalar_int, naf, pc

vars == <<heap, key, pub, ctor, ret, scalar_int, naf, pc>>

(***************************** curve parameters ****************************)
p == 23
order == 17
Gx == 1
Gy == 6
\* the curve's b never appears in the code; it is fixed by G lying on the curve
CurveB == (Gy * Gy - Gx * Gx * Gx + 3 * Gx) % p

(********************************* bounds **********************************)
\* largest scalar handed to multiply() by a direct caller
MaxScalar == 40
\* largest message representative z
MaxZ == 1
\* largest r and s handed to _verify on a key that is followed through
\* arbitrary call sequences
MaxArg == 2

(************************* the big-integer collaborator ********************)
\* Integer.inverse(modulus) has a result iff gcd(a, m) = 1
CanInvert(a, m) == \E i \in 0..(m - 1) : (a * i) % m = 1

\* Integer.inverse(modulus): the inverse in [0, m); the call raises ValueError
\* when there is none, which callers model with CanInvert
Inverse(a, m) == CHOOSE i \in 0..(m - 1) : (a * i) % m = 1

(********************************* EccPoint ********************************)
\* a point value is its coordinate pair <<_x, _y>>
Infinity == <<0, 0>>

is_point_at_infinity(P) == P[1] = 0 /\ P[2] = 0

OnCurve(P) == (P[2] * P[2]) % p = (P[1] * P[1] * P[1] - 3 * P[1] + CurveB) % p

CurvePoints == {P \in (0..(p - 1)) \X (0..(p - 1)) : OnCurve(P)}

ValidPoints == CurvePoints \cup {Infinity}

\* __neg__ without the infinity special case
NegNoInfinityCase(P) == <<P[1], p - P[2]>>

\* __neg__
Neg(P) == IF is_point_at_infinity(P) THEN Infinity ELSE <<P[1], p - P[2]>>

\* while x3 < 0: x3 += _curve.p
RECURSIVE WhileNegativeAdd(_)
WhileNegativeAdd(v) == IF v < 0 THEN WhileNegativeAdd(v + p) ELSE v

\* double(): the tangent at P
Double(P) ==
    IF P[2] = 0 THEN Infinity
    ELSE LET common == ((((P[1] * P[1]) % p) * 3 - 3) * Inverse(P[2] * 2, p)) % p
             x3 == WhileNegativeAdd(((common * common) % p) - P[1] - P[1])
             y3 == ((P[1] - x3) * common - P[2]) % p
         IN  <<x3, y3>>

\* add(point): the four special cases in the order of the code, then the chord
Add(P, Q) ==
    IF is_point_at_infinity(P) THEN Q
    ELSE IF is_point_at_infinity(Q) THEN P
    ELSE IF P = Q THEN Double(P)
    ELSE IF P[1] = Q[1] THEN Infinity
    ELSE LET common == ((Q[2] - P[2]) * Inverse(Q[1] - P[1], p)) % p
             x3 == WhileNegativeAdd(((common * common) % p) - P[1] - Q[1])
             y3 == ((P[1] - x3) * common - P[2]) % p
         IN  <<x3, y3>>

(***************************** multiply: recoding **************************)
WINDOW_BITS == 4
window_high == 2 ^ WINDOW_BITS
window_low == 2 ^ (WINDOW_BITS - 1)

\* one pass of the recoding loop: the digit di taken from scalar_int
\* (scalar_int & window_mask is scalar_int mod 16 for scalar_int >= 0)
NafDigit(s) ==
    IF s % 2 = 1
    THEN LET di == s % window_high
         IN  IF di >= window_low THEN di - window_high ELSE di
    ELSE 0

\* the pass without scalar_int -= di
NafRestNoSubtract(s) == s \div 2

\* scalar_int after the pass: scalar_int -= di; scalar_int >>= 1
NafRest(s) == (s - NafDigit(s)) \div 2

RECURSIVE NafLoop(_, _)
NafLoop(s, acc) ==
    IF s > 0 THEN NafLoop(NafRest(s), Append(acc, NafDigit(s))) ELSE acc

Reverse(s) == [i \in 1..Len(s) |-> s[Len(s) + 1 - i]]

\* naf after naf.reverse(): most significant digit first
Recode(k) == Reverse(NafLoop(k, <<>>))

(************************ multiply: precomputed table **********************)
\* the int 0 that fills the unused entries of precomp
Placeholder == <<0>>

\* Python list indexing, 0-based, negative indices counted from the end
PyAt(s, i) == IF i >= 0 THEN s[i + 1] ELSE s[Len(s) + i + 1]

\* -x for an entry of the table: -0 is 0, -point is point.__neg__()
NegEntry(e) == IF e = Placeholder THEN Placeholder ELSE Neg(e)

\* precomp = [0, self, self.double()]: 0, 1P, 2P
TableStart(P) == <<Placeholder, P, Double(P)>>

\* precomp += [precomp[2].add(precomp[i])]: 3P from 1P, 5P from 3P, 7P from 5P
TableAddOdd(t, i) == Append(t, Add(PyAt(t, 2), PyAt(t, i)))

\* precomp += [0]: 4P and 6P are not needed
TableAddPlaceholder(t) == Append(t, Placeholder)

\* the negatives appended in index order instead of reversed
TableAddNegativesUnreversed(t) == t \o [i \in 1..(Len(t) - 1) |-> NegEntry(t[i + 1])]

\* precomp += [-x for x in precomp[:0:-1]]: the entries from the last down to
\* index 1, negated
TableAddNegatives(t) == t \o [i \in 1..(Len(t) - 1) |-> NegEntry(t[Len(t) + 1 - i])]

\* lines 186-192
Precompute(P) ==
    TableAddNegatives(
        TableAddOdd(TableAddPlaceholder(
            TableAddOdd(TableAddPlaceholder(
                TableAddOdd(TableStart(P), 1)), 3)), 5))

(*************************** multiply: main loop ***************************)
\* the body of the loop, after result = result.double():
\* if x != 0: result = result.add(precomp[x])
MulStep(doubled, x, precomp) ==
    IF x # 0 THEN Add(doubled, PyAt(precomp, x)) ELSE doubled

\* for x in naf: result = result.double(); ...
RECURSIVE MulLoop(_, _, _, _)
MulLoop(result, digits, i, precomp) ==
    IF i > Len(digits) THEN result
    ELSE MulLoop(MulStep(Double(result), digits[i], precomp), digits, i + 1, precomp)

\* the table stored with its second half not negated
StoredTableNotNegated(precomp) == SubSeq(precomp, 1, 8) \o [i \in 1..7 |-> precomp[9 - i]]

\* self._precomp = precomp
StoredTable(precomp) == precomp

\* lines 181-201 with the table in hand: hit tells whether it was found in
\* self._precomp
MultiplyWith(precomp, hit, digits) ==
    [err |-> "",
     res |-> MulLoop(Infinity, digits, 1, precomp),
     cache |-> IF hit THEN precomp ELSE StoredTable(precomp)]

\* multiply(scalar) on a point with coordinates P whose _precomp attribute is
\* cache (<<>> when the attribute is absent).  The outcome: err is "" or the
\* error raised, res the returned point, cache the attribute afterwards.
Multiply(P, cache, scalar) ==
    IF scalar < 0
    THEN [err |-> "InvalidScalar", res |-> Infinity, cache |-> cache]
    ELSE IF scalar = 0 \/ is_point_at_infinity(P)
    THEN [err |-> "", res |-> Infinity, cache |-> cache]
    ELSE IF scalar = 1
    THEN [err |-> "", res |-> P, cache |-> cache]
    ELSE MultiplyWith(IF cache # <<>> THEN cache ELSE Precompute(P),
                      cache # <<>>, Recode(scalar))

(****************************** program state ******************************)
\* Point objects live in heap, under these names: the module-level _curve.G,
\* a point made by the caller, and the point a key derives from its d.
Obj == {"G", "P", "Q"}

NoObj == [x |-> -1, y |-> -1, precomp |-> <<>>]

\* EccPoint.__init__ / copy(): a new object, without the _precomp attribute
NewPoint(P) == [x |-> P[1], y |-> P[2], precomp |-> <<>>]

Coords(o) == <<heap[o].x, heap[o].y>>

\* the value returned (or the error raised) by the last call; hit tells
\* whether a multiply found the _precomp attribute already set (line 181)
NoRet == [op |-> "none", tgt |-> "", args |-> <<>>, kind |-> "none",
          val |-> <<>>, b |-> FALSE, err |-> "", hit |-> FALSE]

Returned(op, tgt, args, kind, val) ==
    [op |-> op, tgt |-> tgt, args |-> args, kind |-> kind, val |-> val,
     b |-> FALSE, err |-> "", hit |-> FALSE]

ReturnedBool(op, tgt, args, b) ==
    [op |-> op, tgt |-> tgt, args |-> args, kind |-> "bool", val |-> <<>>,
     b |-> b, err |-> "", hit |-> FALSE]

Raised(op, tgt, args, err) ==
    [op |-> op, tgt |-> tgt, args |-> args, kind |-> "error", val |-> <<>>,
     b |-> FALSE, err |-> err, hit |-> FALSE]

NoKey == [curve |-> "", d |-> <<>>, point |-> "None"]

NoCtor == [curve |-> "", d |-> <<>>, point |-> "None", err |-> "none"]

(************************** operations on a point **************************)
\* o.multiply(k) called directly on a point object
PointMultiply(o, k) ==
    /\ heap[o] # NoObj
    /\ \E m \in {Multiply(Coords(o), heap[o].precomp, k)} :
          /\ heap' = [heap EXCEPT ![o].precomp = m.cache]
          /\ ret' = IF m.err # "" THEN Raised("multiply", o, <<k>>, m.err)
                    ELSE [Returned("multiply", o, <<k>>, "point", m.res)
                             EXCEPT !.hit = heap[o].precomp # <<>>]
    /\ UNCHANGED <<key, pub, ctor, scalar_int, naf, pc>>

\* o.add(-o)
PointAddNeg(o) ==
    /\ heap[o] # NoObj
    /\ ret' = Returned("add_neg", o, <<>>, "point", Add(Coords(o), Neg(Coords(o))))
    /\ UNCHANGED <<heap, key, pub, ctor, scalar_int, naf, pc>>

\* o.add(EccPoint.point_at_infinity())
PointAddInfinity(o) ==
    /\ heap[o] # NoObj
    /\ ret' = Returned("add_inf", o, <<>>, "point", Add(Coords(o), Infinity))
    /\ UNCHANGED <<heap, key, pub, ctor, scalar_int, naf, pc>>

\* the inputs: G as the module builds it, and a caller's point P
InitPoint ==
    /\ \E P \in ValidPoints :
          heap = [o \in Obj |-> IF o = "G" THEN NewPoint(<<Gx, Gy>>)
                                ELSE IF o = "P" THEN NewPoint(P) ELSE NoObj]
    /\ key = NoKey
    /\ pub = NoKey
    /\ ctor = NoCtor
    /\ ret = NoRet
    /\ scalar_int = 0
    /\ naf = <<>>
    /\ pc = "idle"

NextPoint ==
    \/ \E k \in (0 - 1)..MaxScalar : PointMultiply("P", k)
    \/ PointAddNeg("P")
    \/ PointAddInfinity("P")

SpecPoint == InitPoint /\ [][NextPoint]_vars

(********************************** EccKey *********************************)
\* an optional value: None is <<>>, a given value v is <<v>>
None == <<>>

Curves == {"P-256", "P-384", "None"}

\* the constructor with the range check 1 <= d <= order
EccKeyInitInclusive(curve, d, point) ==
    IF curve # "P-256"
    THEN [err |-> "InvalidCurve", key |-> NoKey]
    ELSE IF d = None
    THEN IF point = "None"
         THEN [err |-> "MissingComponent", key |-> NoKey]
         ELSE [err |-> "", key |-> [curve |-> curve, d |-> d, point |-> point]]
    ELSE IF ~(1 <= d[1] /\ d[1] <= order)
    THEN [err |-> "InvalidPrivateComponent", key |-> NoKey]
    ELSE [err |-> "", key |-> [curve |-> curve, d |-> d, point |-> point]]

\* EccKey.__init__(curve=, d=, point=): err is "" and key the new object, or err
\* names the ValueError raised and no object is made.  The three ValueErrors
\* are told apart by their messages: "Unsupported curve" is InvalidCurve,
\* "Either private or public ECC component must be specified" is
\* MissingComponent, "Invalid ECC private component" is InvalidPrivateComponent.
EccKeyInit(curve, d, point) ==
    IF curve # "P-256"
    THEN [err |-> "InvalidCurve", key |-> NoKey]
    ELSE IF d = None
    THEN IF point = "None"
         THEN [err |-> "MissingComponent", key |-> NoKey]
         ELSE [err |-> "", key |-> [curve |-> curve, d |-> d, point |-> point]]
    ELSE IF ~(1 <= d[1] /\ d[1] < order)
    THEN [err |-> "InvalidPrivateComponent", key |-> NoKey]
    ELSE [err |-> "", key |-> [curve |-> curve, d |-> d, point |-> point]]

has_private(k) == k.d # None

KeyAt(slot) == IF slot = "key" THEN key ELSE pub

\* self._point = _curve.G.multiply(self._d): the key k with the heap h, m the
\* outcome of the multiplication; the product is a new point object
DerivePoint(k, h, m) ==
    [key |-> [k EXCEPT !.point = "Q"],
     heap |-> [h EXCEPT !["G"].precomp = m.cache, !["Q"] = NewPoint(m.res)],
     obj |-> "Q"]

\* pointQ deriving (d + 1) * G
PointQOffByOne(k, h) ==
    IF k.point = "None"
    THEN DerivePoint(k, h, Multiply(<<h["G"].x, h["G"].y>>, h["G"].precomp, k.d[1] + 1))
    ELSE [key |-> k, heap |-> h, obj |-> k.point]

\* the pointQ property read on key object k with the heap h: the key and the
\* heap afterwards, and the name of the point object returned
PointQ(k, h) ==
    IF k.point = "None"
    THEN DerivePoint(k, h, Multiply(<<h["G"].x, h["G"].y>>, h["G"].precomp, k.d[1]))
    ELSE [key |-> k, heap |-> h, obj |-> k.point]

\* line 245 with r in hand: None * r raises TypeError
SignS(d, h, z, k, r) ==
    IF d = None
    THEN [heap |-> h, err |-> "TypeError", val |-> <<>>]
    ELSE [heap |-> h, err |-> "",
          val |-> <<r, (Inverse(k, order) * (z + d[1] * r)) % order>>]

\* line 244 with m the outcome of G.multiply(k): .x raises on infinity
SignR(d, h, z, k, m) ==
    IF is_point_at_infinity(m.res)
    THEN [heap |-> [h EXCEPT !["G"].precomp = m.cache],
          err |-> "PointAtInfinityAccess", val |-> <<>>]
    ELSE SignS(d, [h EXCEPT !["G"].precomp = m.cache], z, k, m.res[1] % order)

\* _sign(z, k) on key object k0 with the heap h: the heap afterwards and the
\* value returned or the error raised.  G.multiply(k) runs, and may set G's
\* table, before self._d is read.
SignOutcome(k0, h, z, k) ==
    IF ~(0 < k /\ k < order)
    THEN [heap |-> h, err |-> "AssertionError", val |-> <<>>]
    ELSE SignR(k0.d, h, z, k, Multiply(<<h["G"].x, h["G"].y>>, h["G"].precomp, k))

\* line 252 with R = point1.add(point2): .x raises on infinity
VerifyCompare(k, h, r, R) ==
    IF is_point_at_infinity(R)
    THEN [key |-> k, heap |-> h, err |-> "PointAtInfinityAccess", b |-> FALSE]
    ELSE [key |-> k, heap |-> h, err |-> "", b |-> (R[1] = r)]

\* line 252 with m2 the outcome of self.pointQ.multiply(...)
VerifySum(q, r, point1, m2) ==
    VerifyCompare(q.key, [q.heap EXCEPT ![q.obj].precomp = m2.cache], r,
                  Add(point1, m2.res))

\* line 251 with q the outcome of reading self.pointQ
VerifyPoint2(q, r, sinv, point1) ==
    VerifySum(q, r, point1,
              Multiply(<<q.heap[q.obj].x, q.heap[q.obj].y>>, q.heap[q.obj].precomp,
                       (sinv * r) % order))

\* line 251 with m1 the outcome of G.multiply(...)
VerifyPoint1(k0, h, r, sinv, m1) ==
    VerifyPoint2(PointQ(k0, [h EXCEPT !["G"].precomp = m1.cache]), r, sinv, m1.res)

\* line 250 with sinv in hand
VerifyInverse(k0, h, z, r, sinv) ==
    VerifyPoint1(k0, h, r, sinv,
                 Multiply(<<h["G"].x, h["G"].y>>, h["G"].precomp, (sinv * z) % order))

\* _verify(z, (r, s)) on key object k0 with the heap h: the key and the heap
\* afterwards, and the boolean returned or the error raised.  rs[1].inverse
\* raises ValueError when s has no inverse.
VerifyOutcome(k0, h, z, r, s) ==
    IF ~CanInvert(s, order)
    THEN [key |-> k0, heap |-> h, err |-> "NoInverse", b |-> FALSE]
    ELSE VerifyInverse(k0, h, z, r, Inverse(s, order))

(*************************** operations on a key ***************************)
\* key = EccKey(curve=, d=, point=); when the constructor raises, nothing is
\* assigned
Construct(curve, d, point) ==
    /\ point # "None" => heap[point] # NoObj
    /\ \E c \in {EccKeyInit(curve, d, point)} :
          /\ key' = IF c.err # "" THEN key ELSE c.key
          /\ ctor' = [curve |-> curve, d |-> d, point |-> point, err |-> c.err]
          /\ ret' = IF c.err # "" THEN Raised("EccKey", "key", <<>>, c.err)
                    ELSE Returned("EccKey", "key", <<>>, "key", <<>>)
    /\ UNCHANGED <<heap, pub, scalar_int, naf, pc>>

\* KeyAt(slot).pointQ
ReadPointQ(slot) ==
    /\ KeyAt(slot) # NoKey
    /\ \E q \in {PointQ(KeyAt(slot), heap)} :
          /\ heap' = q.heap
          /\ key' = IF slot = "key" THEN q.key ELSE key
          /\ pub' = IF slot = "pub" THEN q.key ELSE pub
          /\ ret' = Returned("pointQ", slot, <<>>, "point",
                             <<q.heap[q.obj].x, q.heap[q.obj].y>>)
    /\ UNCHANGED <<ctor, scalar_int, naf, pc>>

\* pub = key.public_key(), which is EccKey(curve="P-256", point=self.pointQ)
PublicKey ==
    /\ key # NoKey
    /\ \E q \in {PointQ(key, heap)} :
       \E c \in {EccKeyInit("P-256", None, q.obj)} :
          /\ heap' = q.heap
          /\ key' = q.key
          /\ pub' = IF c.err # "" THEN pub ELSE c.key
          /\ ctor' = [curve |-> "P-256", d |-> None, point |-> q.obj, err |-> c.err]
          /\ ret' = IF c.err # "" THEN Raised("public_key", "key", <<>>, c.err)
                    ELSE Returned("public_key", "key", <<>>, "key", <<>>)
    /\ UNCHANGED <<scalar_int, naf, pc>>

\* KeyAt(slot)._sign(z, k)
Sign(slot, z, k) ==
    /\ KeyAt(slot) # NoKey
    /\ \E o \in {SignOutcome(KeyAt(slot), heap, z, k)} :
          /\ heap' = o.heap
          /\ ret' = IF o.err # "" THEN Raised("sign", slot, <<z, k>>, o.err)
                    ELSE Returned("sign", slot, <<z, k>>, "pair", o.val)
    /\ UNCHANGED <<key, pub, ctor, scalar_int, naf, pc>>

\* KeyAt(slot)._verify(z, (r, s))
Verify(slot, z, r, s) ==
    /\ KeyAt(slot) # NoKey
    /\ \E o \in {VerifyOutcome(KeyAt(slot), heap, z, r, s)} :
          /\ heap' = o.heap
          /\ key' = IF slot = "key" THEN o.key ELSE key
          /\ pub' = IF slot = "pub" THEN o.key ELSE pub
          /\ ret' = IF o.err # "" THEN Raised("verify", slot, <<z, r, s>>, o.err)
                    ELSE ReturnedBool("verify", slot, <<z, r, s>>, o.b)
    /\ UNCHANGED <<ctor, scalar_int, naf, pc>>

(******************************* construction ******************************)
\* points a caller may hand to the constructor
CallerPoints == {Double(<<Gx, Gy>>), Infinity}

InitCtor ==
    /\ \E P \in CallerPoints :
          heap = [o \in Obj |-> IF o = "G" THEN NewPoint(<<Gx, Gy>>)
                                ELSE IF o = "P" THEN NewPoint(P) ELSE NoObj]
    /\ key = NoKey
    /\ pub = NoKey
    /\ ctor = NoCtor
    /\ ret = NoRet
    /\ scalar_int = 0
    /\ naf = <<>>
    /\ pc = "idle"

NextCtor ==
    \E curve \in Curves, d \in {None} \cup {<<v>> : v \in 0..order},
       point \in {"None", "G", "P"} : Construct(curve, d, point)

SpecCtor == InitCtor /\ [][NextCtor]_vars

(***************************** key life cycle ******************************)
\* key = generate(curve="P-256"): d drawn from [1, order)
InitKey ==
    /\ heap = [o \in Obj |-> IF o = "G" THEN NewPoint(<<Gx, Gy>>) ELSE NoObj]
    /\ \E d \in 1..(order - 1) :
          /\ key = EccKeyInit("P-256", <<d>>, "None").key
          /\ ctor = [curve |-> "P-256", d |-> <<d>>, point |-> "None",
                     err |-> EccKeyInit("P-256", <<d>>, "None").err]
    /\ pub = NoKey
    /\ ret = Returned("generate", "key", <<>>, "key", <<>>)
    /\ scalar_int = 0
    /\ naf = <<>>
    /\ pc = "idle"

\* the single-threaded caller takes the returned value (or catches the error)
\* before it makes its next call
TakeResult ==
    /\ ret # NoRet
    /\ ret' = NoRet
    /\ UNCHANGED <<heap, key, pub, ctor, scalar_int, naf, pc>>

\* any sequence of calls on the generated key and on its public_key()
NextKey ==
    \/ TakeResult
    \/ ret = NoRet /\ \E slot \in {"key", "pub"} : ReadPointQ(slot)
    \/ ret = NoRet /\ PublicKey
    \/ /\ ret = NoRet
       /\ \E slot \in {"key", "pub"}, z \in 0..MaxZ, k \in 0..order : Sign(slot, z, k)
    \/ /\ ret = NoRet
       /\ \E slot \in {"key", "pub"}, z \in 0..MaxZ, r \in 0..MaxArg, s \in 0..MaxArg :
             Verify(slot, z, r, s)

SpecKey == InitKey /\ [][NextKey]_vars

(************************ generate, sign, verify ***************************)
\* (z, r, s) with at most one of the three replaced by another value of 0..order
AlteredOnce(z, r, s) ==
    {<<z1, r, s>> : z1 \in 0..order} \cup {<<z, r1, s>> : r1 \in 0..order}
        \cup {<<z, r, s1>> : s1 \in 0..order}

\* pub = key.public_key(); then either a _verify on pub of any z, r, s in
\* 0..order, or a _sign on either key followed by a _verify on pub of the
\* signed triple with at most one entry altered
NextEcdsa ==
    \/ ret.op = "generate" /\ PublicKey
    \/ /\ ret.op = "public_key"
       /\ \E z \in 0..order, r \in 0..order, s \in 0..order : Verify("pub", z, r, s)
    \/ /\ ret.op = "public_key"
       /\ \E slot \in {"key", "pub"}, z \in 0..MaxZ, k \in 0..order : Sign(slot, z, k)
    \/ /\ ret.op = "sign" /\ ret.kind = "pair"
       /\ \E a \in AlteredOnce(ret.args[1], ret.val[1], ret.val[2]) :
             Verify("pub", a[1], a[2], a[3])

SpecEcdsa == InitKey /\ [][NextEcdsa]_vars

(************************* multiply, pass by pass ***************************)
\* G.multiply(k) for k >= 2 followed through the recoding loop: ret holds the
\* call and its scalar, scalar_int and naf are the locals of lines 165-177
InitNaf ==
    /\ heap = [o \in Obj |-> IF o = "G" THEN NewPoint(<<Gx, Gy>>) ELSE NoObj]
    /\ key = NoKey
    /\ pub = NoKey
    /\ ctor = NoCtor
    /\ \E k \in 2..MaxScalar :
          /\ ret = Returned("multiply", "G", <<k>>, "none", <<>>)
          /\ scalar_int = k
    /\ naf = <<>>
    /\ pc = "recode"

\* one pass of: while scalar_int > 0
NafPass ==
    /\ pc = "recode"
    /\ scalar_int > 0
    /\ naf' = Append(naf, NafDigit(scalar_int))
    /\ scalar_int' = NafRest(scalar_int)
    /\ UNCHANGED <<heap, key, pub, ctor, ret, pc>>

\* the loop ends; naf.reverse()
NafReverse ==
    /\ pc = "recode"
    /\ ~(scalar_int > 0)
    /\ naf' = Reverse(naf)
    /\ pc' = "reversed"
    /\ UNCHANGED <<heap, key, pub, ctor, ret, scalar_int>>

\* lines 181-201: the table, the main loop, return
NafFinish ==
    /\ pc = "reversed"
    /\ \E m \in {MultiplyWith(IF heap["G"].precomp # <<>> THEN heap["G"].precomp
                              ELSE Precompute(Coords("G")),
                              heap["G"].precomp # <<>>, naf)} :
          /\ heap' = [heap EXCEPT !["G"].precomp = m.cache]
          /\ ret' = [ret EXCEPT !.kind = "point", !.val = m.res]
    /\ pc' = "done"
    /\ UNCHANGED <<key, pub, ctor, scalar_int, naf>>

NextNaf == NafPass \/ NafReverse \/ NafFinish

\* the call is synchronous: nothing suspends the recoding loop between passes
SpecNaf == InitNaf /\ [][NextNaf]_vars /\ WF_vars(NafPass \/ NafReverse)

(*********************** claims on point arithmetic ************************)
\* naive left-to-right double-and-add: for each bit of k, most significant
\* first, double the accumulator and add P when the bit is set
RECURSIVE NaiveMultiply(_, _)
NaiveMultiply(P, k) ==
    IF k = 0 THEN Infinity
    ELSE LET h == Double(NaiveMultiply(P, k \div 2))
         IN  IF k % 2 = 1 THEN Add(h, P) ELSE h

\* C1: for every valid point and every scalar k >= 0, multiply(k) returns a
\* point, and that point is coordinate-equal to the naive double-and-add
\* product built from the same double() and add().
C1_MultiplyEqualsNaive ==
    (ret.op = "multiply" /\ ret.args[1] >= 0) =>
        /\ ret.kind = "point"
        /\ ret.val = NaiveMultiply(Coords(ret.tgt), ret.args[1])

\* a product whose recoding has a negative digit, computed from the cached table
C1_Witness ==
    /\ ret.op = "multiply"
    /\ ret.args[1] = order - 1
    /\ Coords(ret.tgt) = <<Gx, Gy>>
    /\ ret.val = <<Gx, p - Gy>>
    /\ heap[ret.tgt].precomp # <<>>

\* C8: for every valid point P, the point at infinity included, P.add(-P) is
\* the point at infinity and P.add(infinity) is coordinate-equal to P.
C8_AddIdentityInverse ==
    /\ ret.op = "add_neg" => ret.val = Infinity
    /\ ret.op = "add_inf" => ret.val = Coords(ret.tgt)

C8_Witness ==
    /\ ret.op = "add_neg"
    /\ Coords(ret.tgt) = Infinity
    /\ ret.val = Infinity

\* C9: the table of precomputed multiples is not observable: a step never
\* changes the coordinates of a point object (so its equality with other
\* points stays what it was), and every multiply(k) returns the point that
\* multiply(k) returns on a copy of the point that has no table yet.
C9_CacheNotObservable ==
    /\ [](ret.op = "multiply" =>
            \E fresh \in {Multiply(Coords(ret.tgt), <<>>, ret.args[1])} :
                IF fresh.err # "" THEN ret.kind = "error" /\ ret.err = fresh.err
                ELSE ret.kind = "point" /\ ret.val = fresh.res)
    /\ [][\A o \in Obj : heap[o] # NoObj =>
            heap'[o].x = heap[o].x /\ heap'[o].y = heap[o].y]_vars

\* a multiply answered from a table left by an earlier call
C9_Witness ==
    /\ ret.op = "multiply"
    /\ ret.args[1] = 2
    /\ ret.hit
    /\ heap[ret.tgt].precomp = Precompute(Coords(ret.tgt))
    /\ ret.val = Double(Coords(ret.tgt))
    /\ ~is_point_at_infinity(ret.val)

(************************** claims on construction *************************)
\* what the last constructor call was given is valid
CtorArgsValid ==
    /\ ctor.curve = "P-256"
    /\ \/ ctor.d # None /\ 1 <= ctor.d[1] /\ ctor.d[1] < order
       \/ ctor.d = None /\ ctor.point # "None"

\* C5: construction succeeds iff curve is "P-256" and either d is given with
\* 1 <= d < order, or d is absent and a point is given; otherwise it fails, in
\* the order of the checks, with InvalidCurve when the curve is not "P-256",
\* with InvalidPrivateComponent when d is given outside [1, order-1], with
\* MissingComponent when neither d nor point is given, and no key is produced.
C5_Construction ==
    /\ [](ret.op = "EccKey" =>
            /\ (ret.kind = "key") <=> CtorArgsValid
            /\ ret.kind = "key" =>
                  key = [curve |-> ctor.curve, d |-> ctor.d, point |-> ctor.point]
            /\ ret.kind # "key" =>
                  /\ ret.kind = "error"
                  /\ ret.err = IF ctor.curve # "P-256" THEN "InvalidCurve"
                               ELSE IF ctor.d # None THEN "InvalidPrivateComponent"
                               ELSE "MissingComponent")
    /\ [][(ret'.op = "EccKey" /\ ret'.kind = "error") => key' = key]_vars

\* d = 0 is refused while an earlier key stays what it was
C5_Witness ==
    /\ ret.op = "EccKey"
    /\ ctor.curve = "P-256"
    /\ ctor.d = <<0>>
    /\ ret.err = "InvalidPrivateComponent"
    /\ key # NoKey

(************************** claims on the key ******************************)
\* C7: for a key constructed with only d, after any sequence of pointQ,
\* public_key(), _sign and _verify calls, every read of pointQ returns d*G
\* (G for d = 1, -G for d = order-1); once derived the point is kept, and d
\* never changes.
C7_PointQDerivedOnce ==
    /\ [](/\ ret.op = "pointQ" => ret.val = NaiveMultiply(<<Gx, Gy>>, key.d[1])
          /\ (ret.op = "pointQ" /\ key.d = <<1>>) => ret.val = <<Gx, Gy>>
          /\ (ret.op = "pointQ" /\ key.d = <<order - 1>>) => ret.val = Neg(<<Gx, Gy>>)
          /\ key.point # "None" =>
                Coords(key.point) = NaiveMultiply(<<Gx, Gy>>, key.d[1]))
    /\ [][/\ key'.d = key.d
          /\ key.point # "None" =>
                /\ key'.point = key.point
                /\ heap'[key.point].x = heap[key.point].x
                /\ heap'[key.point].y = heap[key.point].y]_vars

\* pointQ read again after public_key() and a _verify that left a table on Q
C7_Witness ==
    /\ ret.op = "pointQ"
    /\ key.d = <<order - 1>>
    /\ ret.val = <<Gx, p - Gy>>
    /\ pub # NoKey
    /\ heap["Q"].precomp # <<>>

(******************* claims on generate, sign, verify **********************)
\* C2: for every private key, z and k with 0 < k < order, the pair returned
\* by _sign(z, k) is accepted by _verify(z, (r, s)) on the public_key().
C2_RoundTrip ==
    [][(/\ ret.op = "sign" /\ ret.kind = "pair" /\ ret.tgt = "key"
        /\ ret'.op = "verify" /\ ret'.tgt = "pub"
        /\ ret'.args = <<ret.args[1], ret.val[1], ret.val[2]>>)
       => (ret'.kind = "bool" /\ ret'.b)]_vars

\* R = G*u1 + Q*u2 with w = s^-1, u1 = w*z, u2 = w*r (mod order)
VerifyPointR(Q, z, r, s) ==
    Add(NaiveMultiply(<<Gx, Gy>>, (Inverse(s, order) * z) % order),
        NaiveMultiply(Q, (Inverse(s, order) * r) % order))

\* C3: _verify returns true iff R.x mod order = r for R = G*u1 + Q*u2, and
\* returns false when R is the point at infinity.
C3_VerifyDecision ==
    (ret.op = "verify" /\ CanInvert(ret.args[3], order)) =>
        \E R \in {VerifyPointR(Coords(KeyAt(ret.tgt).point),
                               ret.args[1], ret.args[2], ret.args[3])} :
            /\ ret.kind = "bool"
            /\ ret.b <=> (~is_point_at_infinity(R) /\ R[1] % order = ret.args[2])

\* C4: given (r, s) from _sign(z, k), _verify of an altered z or of a
\* corrupted pair returns the boolean false and never raises.
C4_AlteredRejected ==
    [][(/\ ret.op = "sign" /\ ret.kind = "pair" /\ ret.tgt = "key"
        /\ ret'.op = "verify"
        /\ ret'.args # <<ret.args[1], ret.val[1], ret.val[2]>>)
       => (ret'.kind = "bool" /\ ~ret'.b)]_vars

\* C6: _sign(z, k) with a valid k on a key without private scalar fails with
\* MissingPrivateKey and returns no pair.
C6_SignNeedsPrivate ==
    (/\ ret.op = "sign"
     /\ ~has_private(KeyAt(ret.tgt))
     /\ 0 < ret.args[2] /\ ret.args[2] < order)
    => (ret.kind = "error" /\ ret.err = "MissingPrivateKey")

(*************************** claims on recoding ****************************)
NafDigits == {0, 1, 3, 5, 7, 0 - 1, 0 - 3, 0 - 5, 0 - 7}

\* digits, most significant first: every digit is in NafDigits, a non-zero
\* digit is the first or has three zeros before it, and it indexes a point
\* of the table
NafWellFormed(digits, table) ==
    \A i \in 1..Len(digits) :
        /\ digits[i] \in NafDigits
        /\ digits[i] # 0 =>
              /\ i = 1 \/ (i > 3 /\ \A j \in 1..3 : digits[i - j] = 0)
              /\ i < Len(digits) => digits[i + 1] = 0
              /\ PyAt(table, digits[i]) # Placeholder

\* C10: for every k >= 2 the recoding loop terminates, and the digits it
\* leaves are in {0, +-1, +-3, +-5, +-7}, no two non-zero digits are
\* consecutive (each non-zero digit has at least three zeros, or the end of
\* the sequence, on its more significant side), and every non-zero digit
\* indexes a point, never a placeholder, of the precomputed table.
C10_Recoding ==
    /\ <>(pc # "recode")
    /\ [](pc \in {"reversed", "done"} =>
            /\ naf = Recode(ret.args[1])
            /\ NafWellFormed(naf, Precompute(Coords("G"))))

\* 15 recoded as 1 0 0 0 -1
C10_Witness ==
    /\ pc = "done"
    /\ naf = <<1, 0, 0, 0, 0 - 1>>
    /\ ret.val = NaiveMultiply(<<Gx, Gy>>, 15)

=============================================================================
